---- MODULE Spec2Model ----
(***************************************************************************)
(* Model of UniversityManagementSystem (src/practicalwork7.ts): the four   *)
(* in-memory collections, the two id counters, and one action per public   *)
(* method.  A thrown Error is modelled by its failure kind:                *)
(*   "Студента не знайдено"                      -> NotFoundStudent         *)
(*   "Курс не знайдено"                          -> NotFoundCourse          *)
(*   "Курс заповнений"                           -> CapacityExceeded        *)
(*   "Факультет студента не відповідає ..."      -> FacultyMismatch         *)
(*   "Студент не зареєстрований на цей курс"     -> NotRegistered           *)
(*   "Не можна змінити статус відрахованого ..." -> IllegalTransition       *)
(* Fields that no method reads (fullName, year, enrollmentDate,            *)
(* groupNumber, name, type, credits, date) are left out of the records.    *)
(* Each method is an operator computing its outcome from the current       *)
(* state and its arguments, and an action applying it; last and ret keep   *)
(* what the caller of the last method saw.                                 *)
(***************************************************************************)
EXTENDS Integers, Sequences, FiniteSets, TLC

\* ---- enums -------------------------------------------------------------
StudentStatus == {"Active", "Academic_Leave", "Graduated", "Expelled"}

Semester == {"First", "Second"}

\* enum Grade: the numeric values of Unsatisfactory, Satisfactory, Good, Excellent
Grade == {2, 3, 4, 5}

Faculty == {"Computer_Science", "Economics", "Law", "Engineering"}

\* ---- bound of the model --------------------------------------------------
\* the four arrays together hold at most MaxRecords records
MaxRecords == 5

VARIABLES students, courses, grades, courseRegistrations, nextStudentId,
          nextCourseId,
          last,   \* the last call: its method and how it ended
          ret     \* what the last call returned

vars == <<students, courses, grades, courseRegistrations, nextStudentId,
          nextCourseId, last, ret>>

\* the six fields of the class, without the record of the last call
fields == <<students, courses, grades, courseRegistrations, nextStudentId, nextCourseId>>

\* ---- helpers -------------------------------------------------------------
\* the value Array.prototype.find returns when nothing matches
undefined == [undefined |-> TRUE]

\* position of the first element whose id is id, 0 if there is none
firstIndex(seq, id) ==
    IF \E i \in DOMAIN seq : seq[i].id = id
    THEN CHOOSE i \in DOMAIN seq :
             seq[i].id = id /\ \A j \in DOMAIN seq : seq[j].id = id => i <= j
    ELSE 0

\* Array.prototype.find(x => x.id === id): the first match, or undefined
find(seq, id) ==
    IF firstIndex(seq, id) = 0 THEN undefined ELSE seq[firstIndex(seq, id)]

\* ---- the methods, as functions of the current state ------------------------
\* each returns the failure kind ("ok" when nothing is thrown) and the new
\* value of what the method writes

\* enrollStudent that forgets to advance the counter
enrollStudent_noIncrement(student) ==
    LET newStudent == [id |-> nextStudentId, faculty |-> student.faculty,
                       status |-> student.status]
    IN [err |-> "ok",
        nextStudentId |-> nextStudentId,
        students |-> Append(students, newStudent),
        ret |-> newStudent]

enrollStudent(student) ==
    LET newStudent == [id |-> nextStudentId, faculty |-> student.faculty,
                       status |-> student.status]
    IN [err |-> "ok",
        nextStudentId |-> nextStudentId + 1,
        students |-> Append(students, newStudent),
        ret |-> newStudent]

addCourse(course) ==
    LET newCourse == [id |-> nextCourseId, semester |-> course.semester,
                      faculty |-> course.faculty, maxStudents |-> course.maxStudents]
    IN [err |-> "ok",
        nextCourseId |-> nextCourseId + 1,
        courses |-> Append(courses, newCourse),
        ret |-> newCourse]

\* registerForCourse with the capacity test off by one (> for >=)
registerForCourse_offByOne(studentId, courseId) ==
    LET student == find(students, studentId)
        course == find(courses, courseId)
        ForCourse(reg) == reg.courseId = courseId
        registrationsForCourse == SelectSeq(courseRegistrations, ForCourse)
    IN IF student = undefined
       THEN [err |-> "NotFoundStudent", courseRegistrations |-> courseRegistrations]
       ELSE IF course = undefined
       THEN [err |-> "NotFoundCourse", courseRegistrations |-> courseRegistrations]
       ELSE IF Len(registrationsForCourse) > course.maxStudents
       THEN [err |-> "CapacityExceeded", courseRegistrations |-> courseRegistrations]
       ELSE IF student.faculty # course.faculty
       THEN [err |-> "FacultyMismatch", courseRegistrations |-> courseRegistrations]
       ELSE [err |-> "ok",
             courseRegistrations |->
                 Append(courseRegistrations,
                        [studentId |-> studentId, courseId |-> courseId])]

\* registerForCourse counting the registrations of the student, not of the course
registerForCourse_countsStudent(studentId, courseId) ==
    LET student == find(students, studentId)
        course == find(courses, courseId)
        ForCourse(reg) == reg.studentId = studentId
        registrationsForCourse == SelectSeq(courseRegistrations, ForCourse)
    IN IF student = undefined
       THEN [err |-> "NotFoundStudent", courseRegistrations |-> courseRegistrations]
       ELSE IF course = undefined
       THEN [err |-> "NotFoundCourse", courseRegistrations |-> courseRegistrations]
       ELSE IF Len(registrationsForCourse) >= course.maxStudents
       THEN [err |-> "CapacityExceeded", courseRegistrations |-> courseRegistrations]
       ELSE IF student.faculty # course.faculty
       THEN [err |-> "FacultyMismatch", courseRegistrations |-> courseRegistrations]
       ELSE [err |-> "ok",
             courseRegistrations |->
                 Append(courseRegistrations,
                        [studentId |-> studentId, courseId |-> courseId])]

\* registerForCourse without the faculty test
registerForCourse_noFacultyCheck(studentId, courseId) ==
    LET student == find(students, studentId)
        course == find(courses, courseId)
        ForCourse(reg) == reg.courseId = courseId
        registrationsForCourse == SelectSeq(courseRegistrations, ForCourse)
    IN IF student = undefined
       THEN [err |-> "NotFoundStudent", courseRegistrations |-> courseRegistrations]
       ELSE IF course = undefined
       THEN [err |-> "NotFoundCourse", courseRegistrations |-> courseRegistrations]
       ELSE IF Len(registrationsForCourse) >= course.maxStudents
       THEN [err |-> "CapacityExceeded", courseRegistrations |-> courseRegistrations]
       ELSE [err |-> "ok",
             courseRegistrations |->
                 Append(courseRegistrations,
                        [studentId |-> studentId, courseId |-> courseId])]

\* registerForCourse that pushes the registration before the faculty test
registerForCourse_pushEarly(studentId, courseId) ==
    LET student == find(students, studentId)
        course == find(courses, courseId)
        ForCourse(reg) == reg.courseId = courseId
        registrationsForCourse == SelectSeq(courseRegistrations, ForCourse)
        pushed == Append(courseRegistrations,
                         [studentId |-> studentId, courseId |-> courseId])
    IN IF student = undefined
       THEN [err |-> "NotFoundStudent", courseRegistrations |-> courseRegistrations]
       ELSE IF course = undefined
       THEN [err |-> "NotFoundCourse", courseRegistrations |-> courseRegistrations]
       ELSE IF Len(registrationsForCourse) >= course.maxStudents
       THEN [err |-> "CapacityExceeded", courseRegistrations |-> courseRegistrations]
       ELSE IF student.faculty # course.faculty
       THEN [err |-> "FacultyMismatch", courseRegistrations |-> pushed]
       ELSE [err |-> "ok", courseRegistrations |-> pushed]

\* registerForCourse that rejects a pair already registered
registerForCourse_rejectsDuplicate(studentId, courseId) ==
    LET student == find(students, studentId)
        course == find(courses, courseId)
        ForCourse(reg) == reg.courseId = courseId
        registrationsForCourse == SelectSeq(courseRegistrations, ForCourse)
        isRegistered ==
            \E i \in DOMAIN courseRegistrations :
                /\ courseRegistrations[i].studentId = studentId
                /\ courseRegistrations[i].courseId = courseId
    IN IF student = undefined
       THEN [err |-> "NotFoundStudent", courseRegistrations |-> courseRegistrations]
       ELSE IF course = undefined
       THEN [err |-> "NotFoundCourse", courseRegistrations |-> courseRegistrations]
       ELSE IF isRegistered
       THEN [err |-> "AlreadyRegistered", courseRegistrations |-> courseRegistrations]
       ELSE IF Len(registrationsForCourse) >= course.maxStudents
       THEN [err |-> "CapacityExceeded", courseRegistrations |-> courseRegistrations]
       ELSE IF student.faculty # course.faculty
       THEN [err |-> "FacultyMismatch", courseRegistrations |-> courseRegistrations]
       ELSE [err |-> "ok",
             courseRegistrations |->
                 Append(courseRegistrations,
                        [studentId |-> studentId, courseId |-> courseId])]

\* registerForCourse that tests the faculty before the capacity
registerForCourse_facultyFirst(studentId, courseId) ==
    LET student == find(students, studentId)
        course == find(courses, courseId)
        ForCourse(reg) == reg.courseId = courseId
        registrationsForCourse == SelectSeq(courseRegistrations, ForCourse)
    IN IF student = undefined
       THEN [err |-> "NotFoundStudent", courseRegistrations |-> courseRegistrations]
       ELSE IF course = undefined
       THEN [err |-> "NotFoundCourse", courseRegistrations |-> courseRegistrations]
       ELSE IF student.faculty # course.faculty
       THEN [err |-> "FacultyMismatch", courseRegistrations |-> courseRegistrations]
       ELSE IF Len(registrationsForCourse) >= course.maxStudents
       THEN [err |-> "CapacityExceeded", courseRegistrations |-> courseRegistrations]
       ELSE [err |-> "ok",
             courseRegistrations |->
                 Append(courseRegistrations,
                        [studentId |-> studentId, courseId |-> courseId])]

\* registerForCourse that finds only Active students
registerForCourse_activeOnly(studentId, courseId) ==
    LET found == find(students, studentId)
        student == IF found # undefined /\ found.status = "Active" THEN found ELSE undefined
        course == find(courses, courseId)
        ForCourse(reg) == reg.courseId = courseId
        registrationsForCourse == SelectSeq(courseRegistrations, ForCourse)
    IN IF student = undefined
       THEN [err |-> "NotFoundStudent", courseRegistrations |-> courseRegistrations]
       ELSE IF course = undefined
       THEN [err |-> "NotFoundCourse", courseRegistrations |-> courseRegistrations]
       ELSE IF Len(registrationsForCourse) >= course.maxStudents
       THEN [err |-> "CapacityExceeded", courseRegistrations |-> courseRegistrations]
       ELSE IF student.faculty # course.faculty
       THEN [err |-> "FacultyMismatch", courseRegistrations |-> courseRegistrations]
       ELSE [err |-> "ok",
             courseRegistrations |->
                 Append(courseRegistrations,
                        [studentId |-> studentId, courseId |-> courseId])]

registerForCourse(studentId, courseId) ==
    LET student == find(students, studentId)
        course == find(courses, courseId)
        ForCourse(reg) == reg.courseId = courseId
        registrationsForCourse == SelectSeq(courseRegistrations, ForCourse)
    IN IF student = undefined
       THEN [err |-> "NotFoundStudent", courseRegistrations |-> courseRegistrations]
       ELSE IF course = undefined
       THEN [err |-> "NotFoundCourse", courseRegistrations |-> courseRegistrations]
       ELSE IF Len(registrationsForCourse) >= course.maxStudents
       THEN [err |-> "CapacityExceeded", courseRegistrations |-> courseRegistrations]
       ELSE IF student.faculty # course.faculty
       THEN [err |-> "FacultyMismatch", courseRegistrations |-> courseRegistrations]
       ELSE [err |-> "ok",
             courseRegistrations |->
                 Append(courseRegistrations,
                        [studentId |-> studentId, courseId |-> courseId])]

\* setGrade that only asks whether the student is registered for some course
setGrade_anyCourse(studentId, courseId, grade) ==
    LET isRegistered ==
            \E i \in DOMAIN courseRegistrations :
                courseRegistrations[i].studentId = studentId
        course == find(courses, courseId)
    IN IF ~isRegistered
       THEN [err |-> "NotRegistered", grades |-> grades]
       ELSE IF course = undefined
       THEN [err |-> "NotFoundCourse", grades |-> grades]
       ELSE [err |-> "ok",
             grades |-> Append(grades,
                               [studentId |-> studentId, courseId |-> courseId,
                                grade |-> grade, semester |-> course.semester])]

\* setGrade that looks the student up first, as registerForCourse does
setGrade_checksStudent(studentId, courseId, grade) ==
    LET student == find(students, studentId)
        isRegistered ==
            \E i \in DOMAIN courseRegistrations :
                /\ courseRegistrations[i].studentId = studentId
                /\ courseRegistrations[i].courseId = courseId
        course == find(courses, courseId)
    IN IF student = undefined
       THEN [err |-> "NotFoundStudent", grades |-> grades]
       ELSE IF ~isRegistered
       THEN [err |-> "NotRegistered", grades |-> grades]
       ELSE IF course = undefined
       THEN [err |-> "NotFoundCourse", grades |-> grades]
       ELSE [err |-> "ok",
             grades |-> Append(grades,
                               [studentId |-> studentId, courseId |-> courseId,
                                grade |-> grade, semester |-> course.semester])]

\* setGrade that stores the First semester whatever the course's semester
setGrade_fixedSemester(studentId, courseId, grade) ==
    LET isRegistered ==
            \E i \in DOMAIN courseRegistrations :
                /\ courseRegistrations[i].studentId = studentId
                /\ courseRegistrations[i].courseId = courseId
        course == find(courses, courseId)
    IN IF ~isRegistered
       THEN [err |-> "NotRegistered", grades |-> grades]
       ELSE IF course = undefined
       THEN [err |-> "NotFoundCourse", grades |-> grades]
       ELSE [err |-> "ok",
             grades |-> Append(grades,
                               [studentId |-> studentId, courseId |-> courseId,
                                grade |-> grade, semester |-> "First"])]

\* setGrade without the registration test
setGrade_noRegistrationCheck(studentId, courseId, grade) ==
    LET course == find(courses, courseId)
    IN IF course = undefined
       THEN [err |-> "NotFoundCourse", grades |-> grades]
       ELSE [err |-> "ok",
             grades |-> Append(grades,
                               [studentId |-> studentId, courseId |-> courseId,
                                grade |-> grade, semester |-> course.semester])]

setGrade(studentId, courseId, grade) ==
    LET isRegistered ==
            \E i \in DOMAIN courseRegistrations :
                /\ courseRegistrations[i].studentId = studentId
                /\ courseRegistrations[i].courseId = courseId
        course == find(courses, courseId)
    IN IF ~isRegistered
       THEN [err |-> "NotRegistered", grades |-> grades]
       ELSE IF course = undefined
       THEN [err |-> "NotFoundCourse", grades |-> grades]
       ELSE [err |-> "ok",
             grades |-> Append(grades,
                               [studentId |-> studentId, courseId |-> courseId,
                                grade |-> grade, semester |-> course.semester])]

\* updateStudentStatus without the guard on Expelled
updateStudentStatus_noGuard(studentId, newStatus) ==
    LET student == find(students, studentId)
    IN IF student = undefined
       THEN [err |-> "NotFoundStudent", students |-> students]
       ELSE [err |-> "ok",
             students |->
                 [students EXCEPT ![firstIndex(students, studentId)].status = newStatus]]

\* updateStudentStatus that treats Graduated as terminal too
updateStudentStatus_graduatedFinal(studentId, newStatus) ==
    LET student == find(students, studentId)
    IN IF student = undefined
       THEN [err |-> "NotFoundStudent", students |-> students]
       ELSE IF student.status \in {"Expelled", "Graduated"} /\ newStatus # student.status
       THEN [err |-> "IllegalTransition", students |-> students]
       ELSE [err |-> "ok",
             students |->
                 [students EXCEPT ![firstIndex(students, studentId)].status = newStatus]]

\* updateStudentStatus that removes the student and adds the updated record at
\* the end
updateStudentStatus_replaces(studentId, newStatus) ==
    LET student == find(students, studentId)
        Other(s) == s.id # studentId
    IN IF student = undefined
       THEN [err |-> "NotFoundStudent", students |-> students]
       ELSE IF student.status = "Expelled" /\ newStatus # "Expelled"
       THEN [err |-> "IllegalTransition", students |-> students]
       ELSE [err |-> "ok",
             students |->
                 Append(SelectSeq(students, Other), [student EXCEPT !.status = newStatus])]

updateStudentStatus(studentId, newStatus) ==
    LET student == find(students, studentId)
    IN IF student = undefined
       THEN [err |-> "NotFoundStudent", students |-> students]
       ELSE IF student.status = "Expelled" /\ newStatus # "Expelled"
       THEN [err |-> "IllegalTransition", students |-> students]
       ELSE [err |-> "ok",
             students |->
                 [students EXCEPT ![firstIndex(students, studentId)].status = newStatus]]

\* ---- numbers ---------------------------------------------------------------
\* The averages are JavaScript numbers, quotients of two small integers.  A
\* quotient is kept as the fraction in lowest terms, so that two of them are
\* === exactly when the records are equal; -Infinity, the value of Math.max()
\* of no arguments, is the fraction -1/0.
RECURSIVE GCD(_, _)
GCD(a, b) == IF b = 0 THEN a ELSE GCD(b, a % b)

\* the number a / b, for a >= 0 and b > 0
Divide(a, b) == [num |-> a \div GCD(a, b), den |-> b \div GCD(a, b)]

Zero == [num |-> 0, den |-> 1]

NegInfinity == [num |-> -1, den |-> 0]

\* x > y on numbers
Greater(x, y) == x.num * y.den > y.num * x.den

\* Math.max(...xs): -Infinity for no arguments
RECURSIVE MathMax(_)
MathMax(xs) ==
    IF xs = <<>>
    THEN NegInfinity
    ELSE LET rest == MathMax(Tail(xs))
         IN IF Greater(rest, Head(xs)) THEN rest ELSE Head(xs)

\* studentGrades.reduce((sum, g) => sum + g.grade, 0)
RECURSIVE reduceSum(_)
reduceSum(gs) ==
    IF gs = <<>> THEN 0 ELSE reduceSum(SubSeq(gs, 1, Len(gs) - 1)) + gs[Len(gs)].grade

\* ---- the queries ------------------------------------------------------------
getStudentsByFaculty(faculty) ==
    LET InFaculty(s) == s.faculty = faculty
    IN SelectSeq(students, InFaculty)

getStudentGrades(studentId) ==
    LET OfStudent(g) == g.studentId = studentId
    IN SelectSeq(grades, OfStudent)

\* getAvailableCourses that matches the faculty alone
getAvailableCourses_facultyOnly(faculty, semester) ==
    LET Matches(c) == c.faculty = faculty
    IN SelectSeq(courses, Matches)

getAvailableCourses(faculty, semester) ==
    LET Matches(c) == c.faculty = faculty /\ c.semester = semester
    IN SelectSeq(courses, Matches)

\* calculateAverageGrade with a truncating division
calculateAverageGrade_truncates(studentId) ==
    LET studentGrades == getStudentGrades(studentId)
        total == reduceSum(studentGrades)
    IN IF Len(studentGrades) = 0
       THEN Zero
       ELSE [num |-> total \div Len(studentGrades), den |-> 1]

calculateAverageGrade(studentId) ==
    LET studentGrades == getStudentGrades(studentId)
        total == reduceSum(studentGrades)
    IN IF Len(studentGrades) = 0
       THEN Zero
       ELSE Divide(total, Len(studentGrades))

\* getTopStudents without the averageGrade > 0 test
getTopStudents_noPositiveTest(faculty) ==
    LET studentsInFaculty == getStudentsByFaculty(faculty)
        studentAverages ==
            [i \in DOMAIN studentsInFaculty |->
                [student |-> studentsInFaculty[i],
                 averageGrade |-> calculateAverageGrade(studentsInFaculty[i].id)]]
        topAverage ==
            MathMax([i \in DOMAIN studentAverages |-> studentAverages[i].averageGrade])
        IsTop(sa) == sa.averageGrade = topAverage
        top == SelectSeq(studentAverages, IsTop)
    IN [i \in DOMAIN top |-> top[i].student]

getTopStudents(faculty) ==
    LET studentsInFaculty == getStudentsByFaculty(faculty)
        studentAverages ==
            [i \in DOMAIN studentsInFaculty |->
                [student |-> studentsInFaculty[i],
                 averageGrade |-> calculateAverageGrade(studentsInFaculty[i].id)]]
        topAverage ==
            MathMax([i \in DOMAIN studentAverages |-> studentAverages[i].averageGrade])
        IsTop(sa) == sa.averageGrade = topAverage /\ Greater(sa.averageGrade, Zero)
        top == SelectSeq(studentAverages, IsTop)
    IN [i \in DOMAIN top |-> top[i].student]

\* ---- state machine -------------------------------------------------------
\* the record of the last call: the method and how it ended
Call(op, err) == [op |-> op, err |-> err]

\* ret after a call of a void method, or one that threw
NoReturn == <<>>

Init ==
    /\ students = <<>>
    /\ courses = <<>>
    /\ grades = <<>>
    /\ courseRegistrations = <<>>
    /\ nextStudentId = 1
    /\ nextCourseId = 1
    /\ last = Call("constructor", "ok")
    /\ ret = NoReturn

\* number of records held by the four arrays
Records == Len(students) + Len(courses) + Len(courseRegistrations) + Len(grades)

\* ids passed to the methods: every id assigned so far, and the next one to be
\* assigned, which no record has yet
StudentIdArgs == 1 .. nextStudentId

CourseIdArgs == 1 .. nextCourseId

\* studentInputs: the Omit<Student, "id"> values passed to enrollStudent
EnrollStudent(studentInputs) ==
    \E student \in studentInputs :
        LET r == enrollStudent(student)
        IN /\ Records < MaxRecords
           /\ students' = r.students
           /\ nextStudentId' = r.nextStudentId
           /\ last' = Call("enrollStudent", r.err)
           /\ ret' = r.ret
           /\ UNCHANGED <<courses, grades, courseRegistrations, nextCourseId>>

\* courseInputs: the Omit<Course, "id"> values passed to addCourse
AddCourse(courseInputs) ==
    \E course \in courseInputs :
        LET r == addCourse(course)
        IN /\ Records < MaxRecords
           /\ courses' = r.courses
           /\ nextCourseId' = r.nextCourseId
           /\ last' = Call("addCourse", r.err)
           /\ ret' = r.ret
           /\ UNCHANGED <<students, grades, courseRegistrations, nextStudentId>>

RegisterForCourse ==
    \E studentId \in StudentIdArgs, courseId \in CourseIdArgs :
        LET r == registerForCourse(studentId, courseId)
        IN /\ r.err = "ok" => Records < MaxRecords
           /\ courseRegistrations' = r.courseRegistrations
           /\ last' = Call("registerForCourse", r.err)
           /\ ret' = NoReturn
           /\ UNCHANGED <<students, courses, grades, nextStudentId, nextCourseId>>

\* gradeInputs: the Grade values passed to setGrade
SetGrade(gradeInputs) ==
    \E studentId \in StudentIdArgs, courseId \in CourseIdArgs, grade \in gradeInputs :
        LET r == setGrade(studentId, courseId, grade)
        IN /\ r.err = "ok" => Records < MaxRecords
           /\ grades' = r.grades
           /\ last' = Call("setGrade", r.err)
           /\ ret' = NoReturn
           /\ UNCHANGED <<students, courses, courseRegistrations, nextStudentId,
                          nextCourseId>>

\* statusInputs: the StudentStatus values passed to updateStudentStatus
UpdateStudentStatus(statusInputs) ==
    \E studentId \in StudentIdArgs, newStatus \in statusInputs :
        LET r == updateStudentStatus(studentId, newStatus)
        IN /\ students' = r.students
           /\ last' = Call("updateStudentStatus", r.err)
           /\ ret' = NoReturn
           /\ UNCHANGED <<courses, grades, courseRegistrations, nextStudentId,
                          nextCourseId>>

\* ---- the queries as actions ---------------------------------------------------
GetStudentsByFaculty ==
    \E faculty \in Faculty :
        /\ last' = Call("getStudentsByFaculty", "ok")
        /\ ret' = getStudentsByFaculty(faculty)
        /\ UNCHANGED fields

GetStudentGrades ==
    \E studentId \in StudentIdArgs :
        /\ last' = Call("getStudentGrades", "ok")
        /\ ret' = getStudentGrades(studentId)
        /\ UNCHANGED fields

GetAvailableCourses ==
    \E faculty \in Faculty, semester \in Semester :
        /\ last' = Call("getAvailableCourses", "ok")
        /\ ret' = getAvailableCourses(faculty, semester)
        /\ UNCHANGED fields

CalculateAverageGrade ==
    \E studentId \in StudentIdArgs :
        /\ last' = Call("calculateAverageGrade", "ok")
        /\ ret' = calculateAverageGrade(studentId)
        /\ UNCHANGED fields

GetTopStudents ==
    \E faculty \in Faculty :
        /\ last' = Call("getTopStudents", "ok")
        /\ ret' = getTopStudents(faculty)
        /\ UNCHANGED fields

\* ---- specifications --------------------------------------------------------
\* Spec: two faculties, courses of capacity 0, 1 and 2, students enrolled as
\* Active or Expelled
CoreStudents == [faculty : {"Computer_Science", "Economics"}, status : {"Active", "Expelled"}]

CoreCourses ==
    {[semester |-> "First", faculty |-> "Computer_Science", maxStudents |-> 1],
     [semester |-> "Second", faculty |-> "Computer_Science", maxStudents |-> 2],
     [semester |-> "First", faculty |-> "Economics", maxStudents |-> 1],
     [semester |-> "Second", faculty |-> "Economics", maxStudents |-> 0]}

Next ==
    \/ EnrollStudent(CoreStudents)
    \/ AddCourse(CoreCourses)
    \/ RegisterForCourse
    \/ SetGrade({3, 5})
    \/ UpdateStudentStatus({"Active", "Expelled"})

Spec == Init /\ [][Next]_vars

\* SpecFaculty: every faculty for students and for courses
FacultyStudents == [faculty : Faculty, status : {"Active"}]

FacultyCourses == [semester : {"First"}, faculty : Faculty, maxStudents : {1}]

NextFaculty ==
    \/ EnrollStudent(FacultyStudents)
    \/ AddCourse(FacultyCourses)
    \/ RegisterForCourse
    \/ SetGrade({5})
    \/ UpdateStudentStatus({"Active"})

SpecFaculty == Init /\ [][NextFaculty]_vars

\* SpecStatus: every status at enrollment and as the target of an update
StatusStudents == [faculty : {"Computer_Science"}, status : StudentStatus]

StatusCourses == [semester : {"First"}, faculty : {"Computer_Science"}, maxStudents : {1}]

NextStatus ==
    \/ EnrollStudent(StatusStudents)
    \/ AddCourse(StatusCourses)
    \/ RegisterForCourse
    \/ SetGrade({5})
    \/ UpdateStudentStatus(StudentStatus)

SpecStatus == Init /\ [][NextStatus]_vars

\* SpecQuery: the queries, applied to the states that hold up to
\* MaxQueryStudents students and MaxQueryGrades grades.  Each initial state is
\* one the mutating methods build: enrollStudent for each student in turn,
\* addCourse for each course of QueryCourses, registerForCourse for each graded
\* pair in the order of its first grade (student and course share the faculty
\* and the course's capacity is never reached), then setGrade for each grade.
MaxQueryStudents == 2

MaxQueryGrades == 2

QueryFaculties == {"Computer_Science", "Economics"}

\* maxStudents: 30 is the capacity the demo driver gives its course
QueryCourses ==
    <<[id |-> 1, semester |-> "First", faculty |-> "Computer_Science", maxStudents |-> 30],
      [id |-> 2, semester |-> "Second", faculty |-> "Economics", maxStudents |-> 30],
      [id |-> 3, semester |-> "First", faculty |-> "Computer_Science", maxStudents |-> 0],
      [id |-> 4, semester |-> "Second", faculty |-> "Computer_Science", maxStudents |-> 0]>>

QueryStudentLists ==
    UNION {{[i \in 1 .. k |-> [id |-> i, faculty |-> fs[i], status |-> "Active"]] :
               fs \in [1 .. k -> QueryFaculties]} : k \in 0 .. MaxQueryStudents}

\* the grade records setGrade can append for the students ss
QueryGradeRecords(ss) ==
    LET Open(i, j) ==
            /\ ss[i].faculty = QueryCourses[j].faculty
            /\ QueryCourses[j].maxStudents >= Len(ss)
        pairs == {x \in (DOMAIN ss) \X (DOMAIN QueryCourses) : Open(x[1], x[2])}
    IN {[studentId |-> ss[x[1]].id, courseId |-> QueryCourses[x[2]].id, grade |-> g,
         semester |-> QueryCourses[x[2]].semester] : x \in pairs, g \in Grade}

\* one registration per graded pair, in the order of the first grades
RECURSIVE FirstRegistrations(_)
FirstRegistrations(gs) ==
    IF gs = <<>>
    THEN <<>>
    ELSE LET before == FirstRegistrations(SubSeq(gs, 1, Len(gs) - 1))
             reg == [studentId |-> gs[Len(gs)].studentId, courseId |-> gs[Len(gs)].courseId]
         IN IF \E i \in DOMAIN before : before[i] = reg THEN before ELSE Append(before, reg)

InitQuery ==
    /\ students \in QueryStudentLists
    /\ courses = QueryCourses
    /\ grades \in UNION {[1 .. k -> QueryGradeRecords(students)] : k \in 0 .. MaxQueryGrades}
    /\ courseRegistrations = FirstRegistrations(grades)
    /\ nextStudentId = Len(students) + 1
    /\ nextCourseId = Len(courses) + 1
    /\ last = IF grades = <<>> THEN Call("addCourse", "ok") ELSE Call("setGrade", "ok")
    /\ ret = IF grades = <<>> THEN courses[Len(courses)] ELSE NoReturn

NextQuery ==
    \/ GetStudentsByFaculty
    \/ GetStudentGrades
    \/ GetAvailableCourses
    \/ CalculateAverageGrade
    \/ GetTopStudents

SpecQuery == InitQuery /\ [][NextQuery]_vars

\* ---- vocabulary of the properties -----------------------------------------
\* ids of the stored students and courses
StudentIds == {students[i].id : i \in DOMAIN students}

CourseIds == {courses[i].id : i \in DOMAIN courses}

\* number of registration records whose courseId is cid
RegCount(cid) ==
    Cardinality({i \in DOMAIN courseRegistrations : courseRegistrations[i].courseId = cid})

\* some registration record is for exactly the pair (sid, cid)
IsRegistered(sid, cid) ==
    \E i \in DOMAIN courseRegistrations :
        courseRegistrations[i] = [studentId |-> sid, courseId |-> cid]

\* positions of the grade records whose studentId is sid
GradesAt(sid) == {i \in DOMAIN grades : grades[i].studentId = sid}

\* sum of the grade values at the positions S
RECURSIVE GradeSum(_)
GradeSum(S) ==
    IF S = {}
    THEN 0
    ELSE LET i == CHOOSE i \in S : TRUE
         IN grades[i].grade + GradeSum(S \ {i})

\* r is the mean of the grades of sid, or 0 if there is none
IsAverageOf(r, sid) ==
    LET n == Cardinality(GradesAt(sid))
    IN IF n = 0
       THEN r = Zero
       ELSE r.den > 0 /\ r.num * n = GradeSum(GradesAt(sid)) * r.den

\* the mean of the grades of student t is above that of student s, who has grades
Exceeds(t, s) ==
    GradeSum(GradesAt(t)) * Cardinality(GradesAt(s))
        > GradeSum(GradesAt(s)) * Cardinality(GradesAt(t))

\* the students of faculty f that have a grade and whose mean no student of f exceeds
TopOf(f) ==
    LET IsTop(s) ==
            /\ s.faculty = f
            /\ GradesAt(s.id) # {}
            /\ \A j \in DOMAIN students :
                  students[j].faculty = f => ~Exceeds(students[j].id, s.id)
    IN SelectSeq(students, IsTop)

LastCall(op, err) == last.op = op /\ last.err = err

\* ---- C1 -------------------------------------------------------------------
\* C1: in every reachable state, for an existing student and an existing course
\* of the same faculty, registerForCourse succeeds exactly when fewer than
\* maxStudents registrations exist for the course, and fails with
\* CapacityExceeded otherwise; a registration that was just accepted was at most
\* the maxStudents-th of its course.
C1_CapacityBoundary ==
    /\ \A sid \in StudentIds, cid \in CourseIds :
          LET student == find(students, sid)
              course == find(courses, cid)
              r == registerForCourse(sid, cid)
          IN student.faculty = course.faculty =>
                /\ r.err = "ok" <=> RegCount(cid) < course.maxStudents
                /\ r.err # "ok" => r.err = "CapacityExceeded"
    /\ LastCall("registerForCourse", "ok") =>
          LET reg == courseRegistrations[Len(courseRegistrations)]
          IN RegCount(reg.courseId) <= find(courses, reg.courseId).maxStudents

\* a course of capacity 2 took two registrations and the third call was rejected
C1_Witness ==
    /\ LastCall("registerForCourse", "CapacityExceeded")
    /\ \E i \in DOMAIN courses :
          /\ courses[i].maxStudents = 2
          /\ RegCount(courses[i].id) = 2
          /\ \E j \in DOMAIN students : students[j].faculty = courses[i].faculty

\* ---- C2 -------------------------------------------------------------------
\* C2: in every reachable state no course with maxStudents >= 0 has more
\* registration records than its maxStudents.
C2_CapacityNeverExceeded ==
    \A i \in DOMAIN courses :
        courses[i].maxStudents >= 0 => RegCount(courses[i].id) <= courses[i].maxStudents

\* a course is full and a further registration for a course was just rejected
C2_Witness ==
    /\ LastCall("registerForCourse", "CapacityExceeded")
    /\ \E i \in DOMAIN courses :
          courses[i].maxStudents >= 1 /\ RegCount(courses[i].id) = courses[i].maxStudents
    /\ Len(grades) > 0

\* ---- C3 -------------------------------------------------------------------
\* C3: in every reachable state, registerForCourse on an existing student and
\* an existing course of another faculty is rejected and returns the
\* registrations unchanged; with free capacity the failure is FacultyMismatch.
C3_FacultyMismatchRejected ==
    \A sid \in StudentIds, cid \in CourseIds :
        LET student == find(students, sid)
            course == find(courses, cid)
            r == registerForCourse(sid, cid)
        IN student.faculty # course.faculty =>
              /\ r.err \in {"CapacityExceeded", "FacultyMismatch"}
              /\ r.courseRegistrations = courseRegistrations
              /\ RegCount(cid) < course.maxStudents => r.err = "FacultyMismatch"

\* a Law student and an Engineering course with free capacity exist and a
\* registration was just rejected for the faculty
C3_Witness ==
    /\ LastCall("registerForCourse", "FacultyMismatch")
    /\ \E i \in DOMAIN students, j \in DOMAIN courses :
          /\ students[i].faculty = "Law"
          /\ courses[j].faculty = "Engineering"
          /\ RegCount(courses[j].id) < courses[j].maxStudents
    /\ \A i \in DOMAIN students, j \in DOMAIN courses :
          students[i].faculty # courses[j].faculty

\* ---- C4 -------------------------------------------------------------------
\* C4: in every reachable state setGrade succeeds exactly for the pairs that
\* have a registration record and fails with NotRegistered for every other
\* pair; right after a successful registerForCourse(s, c), setGrade(s, c, g)
\* succeeds.
C4_SetGradeIffRegistered ==
    /\ \A sid \in StudentIdArgs, cid \in CourseIdArgs, g \in Grade :
          LET r == setGrade(sid, cid, g)
          IN /\ r.err = "ok" <=> IsRegistered(sid, cid)
             /\ ~IsRegistered(sid, cid) => r.err = "NotRegistered"
    /\ LastCall("registerForCourse", "ok") =>
          LET reg == courseRegistrations[Len(courseRegistrations)]
          IN \A g \in Grade : setGrade(reg.studentId, reg.courseId, g).err = "ok"

\* setGrade was just rejected while a student is registered for one course and
\* not for another existing one, and another student is registered for nothing
C4_Witness ==
    /\ LastCall("setGrade", "NotRegistered")
    /\ \E sid \in StudentIds, c1 \in CourseIds, c2 \in CourseIds :
          IsRegistered(sid, c1) /\ ~IsRegistered(sid, c2)
    /\ \E s1 \in StudentIds, s2 \in StudentIds, cid \in CourseIds :
          IsRegistered(s1, cid) /\ ~IsRegistered(s2, cid)

\* ---- C5 -------------------------------------------------------------------
\* C5: a student who is Expelled before a step is Expelled after it; for such a
\* student updateStudentStatus fails with IllegalTransition for every target
\* but Expelled, and succeeds for Expelled.
C5_ExpelledTerminal ==
    [][\A i \in DOMAIN students :
          students[i].status = "Expelled" =>
             /\ i \in DOMAIN students'
             /\ students'[i].id = students[i].id
             /\ students'[i].status = "Expelled"
             /\ \A x \in StudentStatus \ {"Expelled"} :
                   updateStudentStatus(students[i].id, x).err = "IllegalTransition"
             /\ updateStudentStatus(students[i].id, "Expelled").err = "ok"]_vars

\* every one of at least two students is Expelled, a registration exists, and
\* an update was just rejected
C5_Witness ==
    /\ LastCall("updateStudentStatus", "IllegalTransition")
    /\ Len(students) >= 2
    /\ \A i \in DOMAIN students : students[i].status = "Expelled"
    /\ Len(courseRegistrations) > 0

\* ---- C6 -------------------------------------------------------------------
\* C6: a step whose call fails leaves the four collections and both counters
\* unchanged (the outcome of every later call is a function of these six
\* fields and of its arguments, so it is the same as without the failed call).
C6_FailedCallsChangeNothing ==
    [][last'.err # "ok" => fields' = fields]_vars

\* a registration was just rejected for the faculty while registrations and
\* grades exist
C6_Witness ==
    /\ LastCall("registerForCourse", "FacultyMismatch")
    /\ Len(courseRegistrations) > 0
    /\ Len(grades) > 0

\* ---- C7 -------------------------------------------------------------------
\* C7: every step keeps the stored ids; enrollStudent (addCourse) appends a
\* record whose id is above every student (course) id stored before, the first
\* one being 1; ids stay pairwise distinct; and only enrollStudent (addCourse)
\* moves the student (course) counter, by one, upwards.
C7_IdsUniqueIncreasing ==
    [][/\ \A i \in DOMAIN students :
             i \in DOMAIN students' /\ students'[i].id = students[i].id
       /\ \A i \in DOMAIN courses :
             i \in DOMAIN courses' /\ courses'[i].id = courses[i].id
       /\ \A i, j \in DOMAIN students' : students'[i].id = students'[j].id => i = j
       /\ \A i, j \in DOMAIN courses' : courses'[i].id = courses'[j].id => i = j
       /\ IF last'.op = "enrollStudent"
          THEN /\ Len(students') = Len(students) + 1
               /\ \A i \in DOMAIN students : students'[Len(students')].id > students[i].id
               /\ students = <<>> => students'[1].id = 1
               /\ nextStudentId' = nextStudentId + 1
          ELSE nextStudentId' = nextStudentId /\ Len(students') = Len(students)
       /\ IF last'.op = "addCourse"
          THEN /\ Len(courses') = Len(courses) + 1
               /\ \A i \in DOMAIN courses : courses'[Len(courses')].id > courses[i].id
               /\ courses = <<>> => courses'[1].id = 1
               /\ nextCourseId' = nextCourseId + 1
          ELSE nextCourseId' = nextCourseId /\ Len(courses') = Len(courses)]_vars

\* the second student was just enrolled with id 2 while two courses, the
\* second with id 2, exist
C7_Witness ==
    /\ LastCall("enrollStudent", "ok")
    /\ Len(students) = 2
    /\ Len(courses) = 2
    /\ students[2].id = 2
    /\ courses[2].id = 2

\* ---- C8 -------------------------------------------------------------------
\* C8: in every state calculateAverageGrade(s) is 0 when no grade record has
\* studentId s (an unknown s included) and otherwise the number r with
\* r * count = sum over all the grade records of s, which is at least 2; a
\* value just returned by calculateAverageGrade is such a mean.
C8_AverageIsExactMean ==
    /\ \A sid \in StudentIdArgs :
          LET r == calculateAverageGrade(sid)
          IN /\ IsAverageOf(r, sid)
             /\ GradesAt(sid) # {} => r.num >= 2 * r.den /\ Greater(r, Zero)
    /\ \A i \in DOMAIN grades : grades[i].grade \in Grade
    /\ LastCall("calculateAverageGrade", "ok") =>
          \E sid \in StudentIdArgs : IsAverageOf(ret, sid)

\* the grades 5 and 3 of one student and course were just averaged to 4
C8_Witness ==
    /\ LastCall("calculateAverageGrade", "ok")
    /\ ret = [num |-> 4, den |-> 1]
    /\ Len(grades) = 2
    /\ grades[1].grade = 5
    /\ grades[2].grade = 3
    /\ grades[1].studentId = grades[2].studentId
    /\ grades[1].courseId = grades[2].courseId

\* ---- C9 -------------------------------------------------------------------
\* C9: in every state getTopStudents(f) is the subsequence of students made of
\* the students of faculty f that have a grade and whose mean no student of f
\* exceeds (empty when f has no student or none of them has a grade); a value
\* just returned by getTopStudents is such a subsequence.
C9_TopStudents ==
    /\ \A f \in Faculty : getTopStudents(f) = TopOf(f)
    /\ LastCall("getTopStudents", "ok") => \E f \in Faculty : ret = TopOf(f)

\* two students tied at the top were just returned, both of them
C9_Witness ==
    /\ LastCall("getTopStudents", "ok")
    /\ Len(students) = 2
    /\ ret = students
    /\ Len(grades) = 2
    /\ grades[1].studentId # grades[2].studentId

\* ---- C10 ------------------------------------------------------------------
\* C10 as stated: setGrade with a studentId that no student record has fails
\* with NotFound(student).
C10_SetGradeUnknownStudentNotFound ==
    \A sid \in StudentIdArgs \ StudentIds, cid \in CourseIdArgs, g \in Grade :
        setGrade(sid, cid, g).err = "NotFoundStudent"

\* C10 amended: for a studentId that no student record has, setGrade fails with
\* NotRegistered, while registerForCourse and updateStudentStatus fail with
\* NotFound(student).
C10_UnknownStudentFailures ==
    \A sid \in StudentIdArgs \ StudentIds :
        /\ \A cid \in CourseIdArgs :
              /\ registerForCourse(sid, cid).err = "NotFoundStudent"
              /\ \A g \in Grade : setGrade(sid, cid, g).err = "NotRegistered"
        /\ \A x \in StudentStatus : updateStudentStatus(sid, x).err = "NotFoundStudent"

\* setGrade was just rejected in a state with a course and no student at all,
\* so its studentId was unknown
C10_Witness ==
    /\ LastCall("setGrade", "NotRegistered")
    /\ students = <<>>
    /\ Len(courses) > 0

\* ---- C11 ------------------------------------------------------------------
\* C11 as stated: in every reachable state registerForCourse on a pair that
\* already has a registration record succeeds and appends another record for
\* the pair, whatever the capacity.
C11_DuplicateAlwaysAccepted ==
    \A sid \in StudentIds, cid \in CourseIds :
        IsRegistered(sid, cid) =>
            LET r == registerForCourse(sid, cid)
            IN /\ r.err = "ok"
               /\ r.courseRegistrations =
                     Append(courseRegistrations, [studentId |-> sid, courseId |-> cid])

\* C11 amended: registerForCourse on a pair that already has a registration
\* record is not rejected for being a duplicate, but the capacity test runs
\* again: it succeeds, appending another record for the pair, exactly when the
\* course has fewer than maxStudents registrations, and fails with
\* CapacityExceeded, appending nothing, otherwise.
C11_DuplicateOnlyCapacityChecked ==
    \A sid \in StudentIds, cid \in CourseIds :
        IsRegistered(sid, cid) =>
            LET r == registerForCourse(sid, cid)
                full == RegCount(cid) >= find(courses, cid).maxStudents
            IN IF full
               THEN /\ r.err = "CapacityExceeded"
                    /\ r.courseRegistrations = courseRegistrations
               ELSE /\ r.err = "ok"
                    /\ r.courseRegistrations =
                          Append(courseRegistrations, [studentId |-> sid, courseId |-> cid])

\* one pair was just registered a second time, and the third call for it would
\* be rejected
C11_Witness ==
    /\ LastCall("registerForCourse", "ok")
    /\ Len(courseRegistrations) = 2
    /\ courseRegistrations[1] = courseRegistrations[2]
    /\ registerForCourse(courseRegistrations[1].studentId,
                         courseRegistrations[1].courseId).err = "CapacityExceeded"

\* ---- C12 ------------------------------------------------------------------
\* C12: in every step that is a call of updateStudentStatus, in the state
\* before it updateStudentStatus(s, x) on a student who is not Expelled succeeds
\* for every status x and yields the students with exactly that student's
\* status set to x, and fails with NotFound(student) for an unknown id; and if
\* the call succeeds it leaves the courses, registrations, grades and counters
\* alone and changes at most the status of one student.
C12_UpdateStatusFrame ==
    [][last'.op = "updateStudentStatus" =>
          /\ \A sid \in StudentIdArgs, x \in StudentStatus :
                LET r == updateStudentStatus(sid, x)
                IN IF sid \notin StudentIds
                   THEN r.err = "NotFoundStudent" /\ r.students = students
                   ELSE LET i == CHOOSE i \in DOMAIN students : students[i].id = sid
                        IN students[i].status # "Expelled" =>
                              /\ r.err = "ok"
                              /\ r.students = [students EXCEPT ![i].status = x]
          /\ last'.err = "ok" =>
                /\ UNCHANGED <<courses, grades, courseRegistrations, nextStudentId,
                               nextCourseId>>
                /\ Len(students') = Len(students)
                /\ \E i \in DOMAIN students :
                      /\ students'[i].id = students[i].id
                      /\ students'[i].faculty = students[i].faculty
                      /\ \A j \in DOMAIN students \ {i} : students'[j] = students[j]]_vars

\* a status was just updated while one student is Graduated, another is on
\* Academic_Leave, and a registration and a grade exist
C12_Witness ==
    /\ LastCall("updateStudentStatus", "ok")
    /\ Len(students) = 2
    /\ students[1].status = "Graduated"
    /\ students[2].status = "Academic_Leave"
    /\ Len(courseRegistrations) = 1
    /\ Len(grades) = 1

\* ---- C13 ------------------------------------------------------------------
\* one course of capacity 1 in Computer_Science and two Computer_Science
\* students, as left by addCourse and two enrollStudent calls from the empty
\* state
ScenarioSetUp ==
    /\ Len(courses) = 1
    /\ courses[1].maxStudents = 1
    /\ courses[1].faculty = "Computer_Science"
    /\ Len(students) = 2
    /\ \A i \in {1, 2} : students[i].faculty = "Computer_Science"

\* the registration of the first student for the course
ScenarioRegistration == [studentId |-> students[1].id, courseId |-> courses[1].id]

\* the grade Excellent of the first student for the course
ScenarioGrade ==
    [studentId |-> students[1].id, courseId |-> courses[1].id, grade |-> 5,
     semester |-> courses[1].semester]

\* C13: from the empty state, after addCourse with maxStudents 1 in
\* Computer_Science and two Computer_Science enrolments, each stage of the
\* scenario has the stated outcome: with no registration, registering the first
\* student succeeds and stores the pair; with that registration, registering the
\* second fails with CapacityExceeded and leaves exactly one registration, and
\* setGrade(first, course, 5) succeeds and stores the grade; with that grade,
\* calculateAverageGrade(first) is 5 and calculateAverageGrade(second) is 0.
C13_EndToEndScenario ==
    ScenarioSetUp =>
        LET first == students[1].id
            second == students[2].id
            course == courses[1].id
        IN /\ first = 1 /\ second = 2 /\ course = 1
           /\ (courseRegistrations = <<>>) =>
                 /\ registerForCourse(first, course).err = "ok"
                 /\ registerForCourse(first, course).courseRegistrations
                        = <<ScenarioRegistration>>
           /\ (courseRegistrations = <<ScenarioRegistration>>) =>
                 /\ registerForCourse(second, course).err = "CapacityExceeded"
                 /\ registerForCourse(second, course).courseRegistrations
                        = <<ScenarioRegistration>>
                 /\ (grades = <<>>) =>
                       /\ setGrade(first, course, 5).err = "ok"
                       /\ setGrade(first, course, 5).grades = <<ScenarioGrade>>
                 /\ (grades = <<ScenarioGrade>>) =>
                       /\ calculateAverageGrade(first) = [num |-> 5, den |-> 1]
                       /\ calculateAverageGrade(second) = Zero

\* the scenario has run to its end: the grade of the first student was just set
C13_Witness ==
    /\ ScenarioSetUp
    /\ LastCall("setGrade", "ok")
    /\ courseRegistrations = <<ScenarioRegistration>>
    /\ grades = <<ScenarioGrade>>

\* ---- C14 ------------------------------------------------------------------
\* C14: in every reachable state registerForCourse fails with NotFound(student)
\* for an unknown student id whether or not the course id is known, with
\* NotFound(course) for a known student and an unknown course id, and with
\* CapacityExceeded for a full course even if the student's faculty differs
\* from the course's.
C14_CheckOrder ==
    \A sid \in StudentIdArgs, cid \in CourseIdArgs :
        LET r == registerForCourse(sid, cid)
        IN /\ sid \notin StudentIds => r.err = "NotFoundStudent"
           /\ (sid \in StudentIds /\ cid \notin CourseIds) => r.err = "NotFoundCourse"
           /\ (/\ sid \in StudentIds
               /\ cid \in CourseIds
               /\ RegCount(cid) >= find(courses, cid).maxStudents
               /\ find(students, sid).faculty # find(courses, cid).faculty) =>
                  r.err = "CapacityExceeded"

\* a registration was just refused for capacity while the only course is full
\* with one registration and the second student, of another faculty, is
\* refused for capacity too
C14_Witness ==
    /\ LastCall("registerForCourse", "CapacityExceeded")
    /\ Len(courses) = 1
    /\ courses[1].maxStudents = 1
    /\ RegCount(courses[1].id) = 1
    /\ Len(students) = 2
    /\ students[2].faculty # courses[1].faculty
    /\ registerForCourse(students[2].id, courses[1].id).err = "CapacityExceeded"

\* ---- C15 ------------------------------------------------------------------
\* C15: in every reachable state every registration record is for the id of a
\* student in students and the id of a course in courses, and that student's
\* faculty equals that course's; no call of setGrade, for any ids and grade,
\* fails with NotFound(course), and the last call was not such a failure.
C15_RegistrationsReferToExisting ==
    /\ \A i \in DOMAIN courseRegistrations :
          /\ \E j \in DOMAIN students, k \in DOMAIN courses :
                /\ students[j].id = courseRegistrations[i].studentId
                /\ courses[k].id = courseRegistrations[i].courseId
                /\ students[j].faculty = courses[k].faculty
    /\ \A sid \in StudentIdArgs, cid \in CourseIdArgs, g \in Grade :
          setGrade(sid, cid, g).err # "NotFoundCourse"
    /\ ~LastCall("setGrade", "NotFoundCourse")

\* setGrade was just refused while students of both faculties and a
\* registration exist, and for the registered student and a course id that is
\* not in courses it is refused with NotRegistered
C15_Witness ==
    /\ LastCall("setGrade", "NotRegistered")
    /\ Len(courseRegistrations) = 1
    /\ Len(students) = 2
    /\ students[1].faculty # students[2].faculty
    /\ setGrade(courseRegistrations[1].studentId, nextCourseId, 5).err = "NotRegistered"

\* ---- C16 ------------------------------------------------------------------
\* C16: in every reachable state, for a registered pair (s, c) and any grade g,
\* setGrade(s, c, g) succeeds and yields the grades with the one record
\* (s, c, g, semester of course c) appended, whether or not the pair already has
\* grades; and every grade record's semester is the semester of its course.
C16_SemesterCopiedFromCourse ==
    /\ \A sid \in StudentIds, cid \in CourseIds, g \in Grade :
          IsRegistered(sid, cid) =>
              LET k == CHOOSE k \in DOMAIN courses : courses[k].id = cid
                  r == setGrade(sid, cid, g)
              IN /\ r.err = "ok"
                 /\ r.grades = grades \o <<[studentId |-> sid, courseId |-> cid,
                                            grade |-> g,
                                            semester |-> courses[k].semester]>>
    /\ \A i \in DOMAIN grades :
          \E k \in DOMAIN courses :
              /\ courses[k].id = grades[i].courseId
              /\ courses[k].semester = grades[i].semester

\* the same pair was graded twice, on a course of the Second semester, and both
\* records are kept
C16_Witness ==
    /\ LastCall("setGrade", "ok")
    /\ Len(grades) = 2
    /\ grades[1].studentId = grades[2].studentId
    /\ grades[1].courseId = grades[2].courseId
    /\ grades[1].grade # grades[2].grade
    /\ grades[1].semester = "Second"
    /\ grades[2].semester = "Second"

\* ---- C17 ------------------------------------------------------------------
\* s is t or t with records added at the end
IsPrefix(t, s) == Len(t) <= Len(s) /\ \A i \in DOMAIN t : s[i] = t[i]

\* C17: in every step, courses, registrations and grades after the step have
\* their value before it as a prefix; students after the step has every student
\* of before at the same position with the same id and faculty, so that only a
\* status can differ; the four collections together grow by at most one
\* record; and a status differs only if the step is a successful
\* updateStudentStatus.
C17_AppendOnly ==
    [][/\ IsPrefix(courses, courses')
       /\ IsPrefix(courseRegistrations, courseRegistrations')
       /\ IsPrefix(grades, grades')
       /\ Len(students) <= Len(students')
       /\ \A i \in DOMAIN students :
             /\ students'[i].id = students[i].id
             /\ students'[i].faculty = students[i].faculty
             /\ students'[i].status # students[i].status =>
                   last' = [op |-> "updateStudentStatus", err |-> "ok"]
       /\ Len(students') + Len(courses') + Len(courseRegistrations') + Len(grades')
              <= Len(students) + Len(courses) + Len(courseRegistrations) + Len(grades) + 1
       /\ last'.err # "ok" =>
              Len(students') + Len(courses') + Len(courseRegistrations') + Len(grades')
                  = Len(students) + Len(courses) + Len(courseRegistrations) + Len(grades)]_vars

\* the first of two students was just updated to Graduated and is still first,
\* with a registration and a grade in place
C17_Witness ==
    /\ LastCall("updateStudentStatus", "ok")
    /\ Len(students) = 2
    /\ students[1].id = 1
    /\ students[1].status = "Graduated"
    /\ students[2].status = "Active"
    /\ Len(courseRegistrations) = 1
    /\ Len(grades) = 1

\* ---- C19 ------------------------------------------------------------------
\* C19: in every reachable state every grade record has a registration record
\* for the same pair, its studentId is the id of a student and its courseId the
\* id of a course; and setGrade for a pair with no registration fails and yields
\* the grades unchanged.
C19_GradesHaveRegistration ==
    /\ \A i \in DOMAIN grades :
          /\ \E j \in DOMAIN courseRegistrations :
                /\ courseRegistrations[j].studentId = grades[i].studentId
                /\ courseRegistrations[j].courseId = grades[i].courseId
          /\ grades[i].studentId \in StudentIds
          /\ grades[i].courseId \in CourseIds
    /\ \A sid \in StudentIdArgs, cid \in CourseIdArgs, g \in Grade :
          ~IsRegistered(sid, cid) =>
              /\ setGrade(sid, cid, g).err # "ok"
              /\ setGrade(sid, cid, g).grades = grades

\* a grade was just set for one pair while another student and another course
\* exist that have no registration
C19_Witness ==
    /\ LastCall("setGrade", "ok")
    /\ Len(grades) = 1
    /\ Len(courseRegistrations) = 1
    /\ Len(students) = 2
    /\ Len(courses) = 1
    /\ grades[1].studentId = students[2].id
    /\ students[1].faculty = students[2].faculty

\* ---- C18 ------------------------------------------------------------------
\* the records of seq at the positions S, in increasing order of position
RECURSIVE Pick(_, _)
Pick(seq, S) ==
    IF S = {}
    THEN <<>>
    ELSE LET m == CHOOSE m \in S : \A n \in S : n <= m
         IN Append(Pick(seq, S \ {m}), seq[m])

\* C18: every step of one of the five queries succeeds and leaves all
\* collections and counters unchanged; in a step of getStudentsByFaculty,
\* getStudentGrades or getAvailableCourses, for every argument the query is the
\* records of students with faculty f, of grades with studentId s, or of courses
\* with faculty f and semester sem, in the order of the collection and empty
\* when no record matches, and the value returned is that selection for some
\* argument.
C18_QueriesArePureSelections ==
    [][/\ last'.op \in {"getStudentsByFaculty", "getStudentGrades", "getAvailableCourses",
                        "calculateAverageGrade", "getTopStudents"} =>
             /\ last'.err = "ok"
             /\ fields' = fields
       /\ last'.op = "getStudentsByFaculty" =>
             /\ \A f \in Faculty :
                   getStudentsByFaculty(f)
                       = Pick(students, {i \in DOMAIN students : students[i].faculty = f})
             /\ \E f \in Faculty :
                   ret' = Pick(students, {i \in DOMAIN students : students[i].faculty = f})
       /\ last'.op = "getStudentGrades" =>
             /\ \A sid \in StudentIdArgs :
                   getStudentGrades(sid)
                       = Pick(grades, {i \in DOMAIN grades : grades[i].studentId = sid})
             /\ \E sid \in StudentIdArgs :
                   ret' = Pick(grades, {i \in DOMAIN grades : grades[i].studentId = sid})
       /\ last'.op = "getAvailableCourses" =>
             /\ \A f \in Faculty, sem \in Semester :
                   getAvailableCourses(f, sem)
                       = Pick(courses, {i \in DOMAIN courses :
                                            courses[i].faculty = f /\ courses[i].semester = sem})
             /\ \E f \in Faculty, sem \in Semester :
                   ret' = Pick(courses, {i \in DOMAIN courses :
                                             courses[i].faculty = f /\ courses[i].semester = sem})]_vars

\* getAvailableCourses just returned the first and the third course, leaving
\* out the two courses between and after them that match in one field only or
\* in none
C18_Witness ==
    /\ last = [op |-> "getAvailableCourses", err |-> "ok"]
    /\ Len(ret) = 2
    /\ ret[1] = courses[1]
    /\ ret[2] = courses[3]
    /\ courses[4].faculty = courses[1].faculty
    /\ courses[4].semester # courses[1].semester
    /\ Len(grades) = 2

\* ---- C20 ------------------------------------------------------------------
\* C20: a successful updateStudentStatus step, whatever the old and the new
\* status, leaves the registrations and the grades unchanged and leaves the
\* outcome (error or success, and resulting collection) of registerForCourse
\* and of setGrade the same for every student id, course id and grade; and
\* before every step, for a student of any status and a course of the student's
\* faculty, registerForCourse succeeds if the course has a free place and
\* setGrade succeeds if the pair is registered.
C20_StatusDoesNotGuard ==
    [][/\ last' = [op |-> "updateStudentStatus", err |-> "ok"] =>
             /\ courseRegistrations' = courseRegistrations
             /\ grades' = grades
             /\ \A sid \in StudentIdArgs, cid \in CourseIdArgs :
                   /\ registerForCourse(sid, cid)' = registerForCourse(sid, cid)
                   /\ \A g \in Grade : setGrade(sid, cid, g)' = setGrade(sid, cid, g)
       /\ \A i \in DOMAIN students, k \in DOMAIN courses :
             /\ (/\ students[i].faculty = courses[k].faculty
                 /\ RegCount(courses[k].id) < courses[k].maxStudents) =>
                    registerForCourse(students[i].id, courses[k].id).err = "ok"
             /\ IsRegistered(students[i].id, courses[k].id) =>
                    setGrade(students[i].id, courses[k].id, 5).err = "ok"]_vars

\* the only student is Expelled, holds the only place of a course, and was just
\* graded for it
C20_Witness ==
    /\ LastCall("setGrade", "ok")
    /\ Len(students) = 1
    /\ students[1].status = "Expelled"
    /\ Len(courses) = 1
    /\ RegCount(courses[1].id) = courses[1].maxStudents
    /\ IsRegistered(students[1].id, courses[1].id)
    /\ Len(grades) = 2

====
